---- MODULE Spec2Model ----
(***************************************************************************)
(* Model of app.py, the delivery grouping application: the extractor       *)
(* (gerar_df / validar_linha), the address parser                          *)
(* (extrair_numero_endereco / corrigir_sintaxe_ruas), the street           *)
(* correction pass (aplicar_correcoes_ruas) and the grouping engine        *)
(* (agrupar_entregas / formatar_entrega).                                  *)
(*                                                                         *)
(* A Python str is a sequence of one-character strings; a table row is the *)
(* 4-element list [numero_pacote, rua, numero, bairro] of such strings.    *)
(***************************************************************************)
EXTENDS Integers, Sequences, FiniteSets, TLC

VARIABLES
  pc,          \* position of the run: which stage has completed
  planilha,    \* the worksheet: rows (header first) of cells, each row hidden or not
  tabela,      \* the table of records [numero_pacote, rua, numero, bairro]
  erros,       \* the problems gerar_df collected
  dicionario,  \* the correction rules, in file order
  grupos,      \* the (grupo_atual, endereco_atual) pairs agrupar_entregas closed
  entregas,    \* entregas_agrupadas, the formatted output rows
  primeira,    \* the output of the first run of the pipeline on this table
  execucoes,   \* number of completed runs of the pipeline on this table
  endereco,    \* argument of extrair_numero_endereco
  resultado,   \* its return value (rua, numero)
  pacotes,     \* arguments of formatar_entrega: pacotes and (rua, numero, bairro)
  destino,
  saida        \* return value of formatar_entrega

vars == <<pc, planilha, tabela, erros, dicionario, grupos, entregas,
          primeira, execucoes, endereco, resultado, pacotes, destino, saida>>

(***************************************************************************)
(* Bounds of the model.                                                    *)
(***************************************************************************)
MaxEndereco == 5
MaxLinhas == 2
MaxTabela == 2
MaxRegras == 2
MaxPacotes == 3
MaxExecucoes == 2

(***************************************************************************)
(* Program constants.                                                      *)
(***************************************************************************)
COLUNAS_ESPERADAS == 11
COLUNA_PACOTE == 3
COLUNA_ENDERECO == 8
COLUNA_BAIRRO == 10
COLUNAS_OBRIGATORIAS == {COLUNA_PACOTE, COLUNA_BAIRRO}

(***************************************************************************)
(* Python str primitives.                                                  *)
(***************************************************************************)
\* ord(): the code point of a character, for the characters the model uses.
Ord(c) ==
  CASE c = " " -> 32
    [] c = "," -> 44
    [] c = "." -> 46
    [] c = "0" -> 48
    [] c = "1" -> 49
    [] c = "2" -> 50
    [] c = "3" -> 51
    [] c = "4" -> 52
    [] c = "5" -> 53
    [] c = "6" -> 54
    [] c = "7" -> 55
    [] c = "8" -> 56
    [] c = "9" -> 57
    [] c = "A" -> 65
    [] c = "B" -> 66
    [] c = "C" -> 67
    [] c = "D" -> 68
    [] c = "N" -> 78
    [] c = "S" -> 83
    [] c = "n" -> 110
    [] c = "s" -> 115

IsDigit(c) == c \in {"0", "1", "2", "3", "4", "5", "6", "7", "8", "9"}

IsSpace(c) == c = " "

\* str.upper() on one character.
UpperChar(c) == IF c = "s" THEN "S" ELSE IF c = "n" THEN "N" ELSE c

\* Case folding of one character, as re.IGNORECASE compares.
LowerChar(c) == IF c = "S" THEN "s" ELSE IF c = "N" THEN "n" ELSE c

Upper(s) == [i \in 1..Len(s) |-> UpperChar(s[i])]

\* a < b on Python str: lexicographic by code point, a proper prefix is smaller.
RECURSIVE StrLess(_, _)
StrLess(a, b) ==
  IF b = <<>> THEN FALSE
  ELSE IF a = <<>> THEN TRUE
  ELSE IF Ord(a[1]) < Ord(b[1]) THEN TRUE
  ELSE IF Ord(a[1]) > Ord(b[1]) THEN FALSE
  ELSE StrLess(Tail(a), Tail(b))

StrLeq(a, b) == a = b \/ StrLess(a, b)

\* str.lstrip() / str.rstrip() / str.strip()
RECURSIVE LStrip(_)
LStrip(s) == IF s # <<>> /\ IsSpace(s[1]) THEN LStrip(Tail(s)) ELSE s

RECURSIVE RStrip(_)
RStrip(s) ==
  IF s # <<>> /\ IsSpace(s[Len(s)]) THEN RStrip(SubSeq(s, 1, Len(s) - 1)) ELSE s

Strip(s) == RStrip(LStrip(s))

\* Index of the first occurrence of character c in s at or after i, 0 if none.
RECURSIVE Find(_, _, _)
Find(s, c, i) ==
  IF i > Len(s) THEN 0 ELSE IF s[i] = c THEN i ELSE Find(s, c, i + 1)

\* endereco.split(',', 1): one or two parts.
Split1(s) ==
  LET k == Find(s, ",", 1)
  IN IF k = 0 THEN <<s>> ELSE <<SubSeq(s, 1, k - 1), SubSeq(s, k + 1, Len(s))>>

\* The greedy \d+ at the start of s: length of the leading run of digits.
RECURSIVE DigitRun(_)
DigitRun(s) == IF s # <<>> /\ IsDigit(s[1]) THEN 1 + DigitRun(Tail(s)) ELSE 0

\* re.match(r"^(sn|\d+)", resto, re.IGNORECASE): group 1, or "none".
ReMatch(resto) ==
  IF Len(resto) >= 2 /\ LowerChar(resto[1]) = "s" /\ LowerChar(resto[2]) = "n"
  THEN [found |-> TRUE, group |-> SubSeq(resto, 1, 2)]
  ELSE IF DigitRun(resto) > 0
  THEN [found |-> TRUE, group |-> SubSeq(resto, 1, DigitRun(resto))]
  ELSE [found |-> FALSE, group |-> <<>>]

(***************************************************************************)
(* extrair_numero_endereco                                                 *)
(***************************************************************************)
\* Variant: the text after the comma is matched without being stripped.
extrair_numero_endereco_semstrip(e) ==
  IF e = <<>> THEN <<e, <<>>>>
  ELSE LET partes == Split1(e)
       IN IF Len(partes) < 2 THEN <<e, <<>>>>
          ELSE LET rua == Strip(partes[1])
                   resto == partes[2]
                   match == ReMatch(resto)
               IN <<rua, IF match.found THEN Upper(match.group) ELSE <<>>>>

extrair_numero_endereco(e) ==
  IF e = <<>> THEN <<e, <<>>>>
  ELSE LET partes == Split1(e)
       IN IF Len(partes) < 2 THEN <<e, <<>>>>
          ELSE LET rua == Strip(partes[1])
                   resto == Strip(partes[2])
                   match == ReMatch(resto)
               IN <<rua, IF match.found THEN Upper(match.group) ELSE <<>>>>

(***************************************************************************)
(* Worksheet cells.  A cell value is None, a text or a float; str() of a   *)
(* float renders its integer part, a point and its decimals ("12.0").      *)
(***************************************************************************)
CellNone == [tipo |-> "None", txt |-> <<>>, int |-> 0, dec |-> 0]

CellStr(s) == [tipo |-> "str", txt |-> s, int |-> 0, dec |-> 0]

CellFloat(i, d) == [tipo |-> "float", txt |-> <<>>, int |-> i, dec |-> d]

DigitChar(d) ==
  CASE d = 0 -> "0" [] d = 1 -> "1" [] d = 2 -> "2" [] d = 3 -> "3" [] d = 4 -> "4"
    [] d = 5 -> "5" [] d = 6 -> "6" [] d = 7 -> "7" [] d = 8 -> "8" [] d = 9 -> "9"

\* str(n) for a natural number n.
RECURSIVE StrNat(_)
StrNat(n) ==
  IF n < 10 THEN <<DigitChar(n)>> ELSE StrNat(n \div 10) \o <<DigitChar(n % 10)>>

\* str(cell.value) for a cell that is not None.
Str(v) == IF v.tipo = "str" THEN v.txt ELSE StrNat(v.int) \o <<".">> \o StrNat(v.dec)

\* s.replace(".0", ""): every non-overlapping occurrence, left to right.
RECURSIVE ReplaceDotZero(_)
ReplaceDotZero(s) ==
  IF s = <<>> THEN <<>>
  ELSE IF Len(s) >= 2 /\ s[1] = "." /\ s[2] = "0" THEN ReplaceDotZero(SubSeq(s, 3, Len(s)))
  ELSE <<s[1]>> \o ReplaceDotZero(Tail(s))

(***************************************************************************)
(* validar_linha: linha is the tuple of cells of one row (0-based index    *)
(* col is element col + 1).                                                *)
(***************************************************************************)
ColunaVazia(linha, col) == col >= Len(linha) \/ linha[col + 1].tipo = "None"

validar_linha(linha, n_linha) ==
  IF Len(linha) < COLUNAS_ESPERADAS
  THEN [valido |-> FALSE, msg |-> [linha |-> n_linha, motivo |-> "colunas", coluna |-> 0]]
  ELSE IF ColunaVazia(linha, COLUNA_PACOTE)
  THEN [valido |-> FALSE, msg |-> [linha |-> n_linha, motivo |-> "vazio", coluna |-> COLUNA_PACOTE]]
  ELSE IF ColunaVazia(linha, COLUNA_BAIRRO)
  THEN [valido |-> FALSE, msg |-> [linha |-> n_linha, motivo |-> "vazio", coluna |-> COLUNA_BAIRRO]]
  ELSE [valido |-> TRUE, msg |-> [linha |-> n_linha, motivo |-> "", coluna |-> 0]]

(***************************************************************************)
(* gerar_df: the loop over ws.iter_rows(min_row=2).  str() of the modelled *)
(* cell values cannot raise, so the inner except branch is never taken.    *)
(***************************************************************************)
ExtrairLinha(linha) ==
  LET numero_pacote == IF linha[COLUNA_PACOTE + 1].tipo # "None"
                       THEN ReplaceDotZero(Str(linha[COLUNA_PACOTE + 1])) ELSE <<>>
      ender == IF linha[COLUNA_ENDERECO + 1].tipo # "None"
               THEN Str(linha[COLUNA_ENDERECO + 1]) ELSE <<>>
      bairro == IF linha[COLUNA_BAIRRO + 1].tipo # "None"
                THEN Str(linha[COLUNA_BAIRRO + 1]) ELSE <<>>
  IN <<numero_pacote, ender, <<>>, bairro>>

\* Variant: a row is validated before its hidden flag is looked at.
RECURSIVE gerar_df_loop_valida_ocultas(_, _, _, _)
gerar_df_loop_valida_ocultas(ws, n_linha, tab, errs) ==
  IF n_linha > Len(ws) THEN [tabela |-> tab, erros |-> errs]
  ELSE LET linha == ws[n_linha].celulas
           v == validar_linha(linha, n_linha)
       IN IF ~v.valido
          THEN gerar_df_loop_valida_ocultas(ws, n_linha + 1, tab, Append(errs, v.msg))
          ELSE IF ws[n_linha].hidden
          THEN gerar_df_loop_valida_ocultas(ws, n_linha + 1, tab, errs)
          ELSE gerar_df_loop_valida_ocultas(ws, n_linha + 1,
                                            Append(tab, ExtrairLinha(linha)), errs)

RECURSIVE gerar_df_loop(_, _, _, _)
gerar_df_loop(ws, n_linha, tab, errs) ==
  IF n_linha > Len(ws) THEN [tabela |-> tab, erros |-> errs]
  ELSE LET linha == ws[n_linha].celulas
           v == validar_linha(linha, n_linha)
       IN IF ws[n_linha].hidden THEN gerar_df_loop(ws, n_linha + 1, tab, errs)
          ELSE IF ~v.valido THEN gerar_df_loop(ws, n_linha + 1, tab, Append(errs, v.msg))
          ELSE gerar_df_loop(ws, n_linha + 1, Append(tab, ExtrairLinha(linha)), errs)

\* ws.max_row: 1 for an empty worksheet.
MaxRow(ws) == IF Len(ws) = 0 THEN 1 ELSE Len(ws)

gerar_df(ws) == gerar_df_loop(ws, 2, <<>>, <<>>)

(***************************************************************************)
(* corrigir_sintaxe_ruas: every row's address cell is parsed in place.     *)
(***************************************************************************)
corrigir_sintaxe_ruas(t) ==
  [i \in 1..Len(t) |->
     LET r == extrair_numero_endereco(t[i][2])
     IN <<t[i][1], r[1], r[2], t[i][4]>>]

(***************************************************************************)
(* aplicar_correcoes_ruas.  correcoes_map is a Python dict built from the  *)
(* rules in order: a key keeps the position of its first insertion and the *)
(* value of its last.  The dict is a sequence of (key, val) in that order. *)
(***************************************************************************)
HasKey(d, k) == \E i \in 1..Len(d) : d[i].key = k

DictPut(d, k, v) ==
  IF HasKey(d, k)
  THEN [i \in 1..Len(d) |-> IF d[i].key = k THEN [key |-> k, val |-> v] ELSE d[i]]
  ELSE Append(d, [key |-> k, val |-> v])

RECURSIVE BuildMap(_, _)
BuildMap(dic, d) ==
  IF dic = <<>> THEN d
  ELSE BuildMap(Tail(dic), DictPut(d, <<dic[1][1], dic[1][2], dic[1][3]>>, dic[1][4]))

correcoes_map(dic) == BuildMap(dic, <<>>)

\* Variant: the bounds are compared as numbers (a shorter digit string is smaller).
NumLeq(a, b) == Len(a) < Len(b) \/ (Len(a) = Len(b) /\ StrLeq(a, b))

Casa_numerica(rua, numero, rua_errada, min_num, max_num) ==
  rua = rua_errada /\ NumLeq(min_num, numero) /\ NumLeq(numero, max_num)

\* rua == rua_errada and min_num <= numero <= max_num, on str.
Casa(rua, numero, rua_errada, min_num, max_num) ==
  rua = rua_errada /\ StrLeq(min_num, numero) /\ StrLeq(numero, max_num)

\* The inner for loop with its break: the first entry of the dict that matches.
RECURSIVE CorrigirLinha(_, _, _)
CorrigirLinha(linha, m, i) ==
  IF i > Len(m) THEN linha
  ELSE IF Casa(linha[2], linha[3], m[i].key[1], m[i].key[2], m[i].key[3])
  THEN <<linha[1], m[i].val, linha[3], linha[4]>>
  ELSE CorrigirLinha(linha, m, i + 1)

aplicar_correcoes_ruas(t, dic) ==
  IF dic = <<>> THEN t
  ELSE [i \in 1..Len(t) |-> CorrigirLinha(t[i], correcoes_map(dic), 1)]

(***************************************************************************)
(* formatar_entrega                                                        *)
(***************************************************************************)
\* sep.join(xs)
RECURSIVE Join(_, _)
Join(sep, xs) ==
  IF xs = <<>> THEN <<>>
  ELSE IF Len(xs) = 1 THEN xs[1]
  ELSE xs[1] \o sep \o Join(sep, Tail(xs))

\* Variant: every package is joined by ", ", the last one too.
formatar_entrega_so_virgulas(pcts, rua, numero, bairro) ==
  <<Join(<<",", " ">>, pcts), rua, numero, bairro>>

formatar_entrega(pcts, rua, numero, bairro) ==
  IF pcts = <<>> THEN <<<<>>, rua, numero, bairro>>
  ELSE LET pacotes_str ==
             IF Len(pcts) = 1 THEN pcts[1]
             ELSE Join(<<",", " ">>, SubSeq(pcts, 1, Len(pcts) - 1))
                    \o <<" ", "e", " ">> \o pcts[Len(pcts)]
       IN <<pacotes_str, rua, numero, bairro>>

(***************************************************************************)
(* agrupar_entregas                                                        *)
(***************************************************************************)
\* The sort key of a row, and < on keys (Python tuple comparison).
Chave(x) == <<x[2], x[3], x[4]>>

ChaveLess(a, b) ==
  \/ StrLess(a[1], b[1])
  \/ a[1] = b[1] /\ StrLess(a[2], b[2])
  \/ a[1] = b[1] /\ a[2] = b[2] /\ StrLess(a[3], b[3])

\* Variant: an unstable sort, a row goes before the rows of equal key.
RECURSIVE InsertSorted_instavel(_, _)
InsertSorted_instavel(s, x) ==
  IF s = <<>> THEN <<x>>
  ELSE IF ~ChaveLess(Chave(s[1]), Chave(x)) THEN <<x>> \o s
  ELSE <<s[1]>> \o InsertSorted_instavel(Tail(s), x)

\* sorted() is stable: a row goes before the first row whose key is greater.
RECURSIVE InsertSorted(_, _)
InsertSorted(s, x) ==
  IF s = <<>> THEN <<x>>
  ELSE IF ChaveLess(Chave(x), Chave(s[1])) THEN <<x>> \o s
  ELSE <<s[1]>> \o InsertSorted(Tail(s), x)

RECURSIVE SortFrom(_, _)
SortFrom(t, acc) ==
  IF t = <<>> THEN acc ELSE SortFrom(Tail(t), InsertSorted(acc, t[1]))

sorted(t) == SortFrom(t, <<>>)

\* endereco_atual is None or a 3-tuple; a 3-tuple is truthy.
EnderecoNone == [some |-> FALSE, v |-> <<>>]

\* Variant: the street of endereco_atual is tested instead of the tuple.
Truthy_rua(endereco_atual) == endereco_atual.some /\ endereco_atual.v[1] # <<>>

Truthy(endereco_atual) == endereco_atual.some

\* The closing of a group: formatar_entrega is called with the group.
Fechar(st) ==
  IF st.grupo_atual # <<>> /\ Truthy(st.endereco_atual)
  THEN Append(st.fechados, [pacotes |-> st.grupo_atual, endereco |-> st.endereco_atual.v])
  ELSE st.fechados

\* The scan of tabela_ordenada; st is (fechados, grupo_atual, endereco_atual).
RECURSIVE Varrer(_, _, _)
Varrer(ord, i, st) ==
  IF i > Len(ord) THEN Fechar(st)
  ELSE LET linha == ord[i]
           ender == <<linha[2], linha[3], linha[4]>>
       IN IF st.endereco_atual.some /\ ender = st.endereco_atual.v
          THEN Varrer(ord, i + 1, [st EXCEPT !.grupo_atual = Append(@, linha[1])])
          ELSE Varrer(ord, i + 1,
                      [fechados |-> Fechar(st),
                       grupo_atual |-> <<linha[1]>>,
                       endereco_atual |-> [some |-> TRUE, v |-> ender]])

\* The groups agrupar_entregas closes, in order.
Grupos(t) ==
  IF t = <<>> THEN <<>>
  ELSE Varrer(sorted(t), 1,
              [fechados |-> <<>>, grupo_atual |-> <<>>, endereco_atual |-> EnderecoNone])

agrupar_entregas(t) ==
  LET g == Grupos(t)
  IN [k \in 1..Len(g) |->
        formatar_entrega(g[k].pacotes, g[k].endereco[1], g[k].endereco[2], g[k].endereco[3])]

(***************************************************************************)
(* Inputs.                                                                 *)
(***************************************************************************)
SeqsUpTo(S, n) == UNION {[1..k -> S] : k \in 0..n}

\* Address parser: every string over these characters.
Alfabeto == {"A", " ", ",", "s", "N", "1"}

\* Worksheets: a header row and up to MaxLinhas data rows, all of one width.
Larguras == {COLUNAS_ESPERADAS - 1, COLUNAS_ESPERADAS}

CelulasPacote ==
  {CellNone, CellStr(<<>>), CellFloat(12, 0), CellStr(<<"1", ".", "0", "5">>)}

CelulasEndereco == {CellNone, CellStr(<<"A", ",", "1">>)}

CelulasBairro == {CellNone, CellStr(<<>>), CellStr(<<"C">>)}

Celulas(w, c3, c8, c10) ==
  [i \in 1..w |-> IF i = COLUNA_PACOTE + 1 THEN c3
                  ELSE IF i = COLUNA_ENDERECO + 1 THEN c8
                  ELSE IF i = COLUNA_BAIRRO + 1 /\ i <= w THEN c10
                  ELSE CellNone]

LinhasPlanilha(w) ==
  {[celulas |-> Celulas(w, c3, c8, c10), hidden |-> h] :
     c3 \in CelulasPacote, c8 \in CelulasEndereco, c10 \in CelulasBairro, h \in BOOLEAN}

Cabecalho(w) ==
  [celulas |-> Celulas(w, CellStr(<<"N">>), CellStr(<<"A">>), CellStr(<<"B">>)),
   hidden |-> FALSE]

\* Extracted tables: rows as gerar_df appends them, [pacote, endereco, "", bairro].
LinhasTabela ==
  {<<p, e, <<>>, b>> :
     p \in {<<"1">>, <<"2">>},
     e \in {<<"A", ",", "1", "0">>, <<"A", ",", " ", "9">>, <<"B", ",", "1", "0">>, <<>>},
     b \in {<<"C">>}}
  \cup {<<p, <<"A", ",", "1", "0">>, <<>>, <<"D">>>> : p \in {<<"1">>, <<"2">>}}

\* Correction rules (rua_errada, min_num, max_num, rua_correta).
Regras ==
  {<<<<"A">>, <<"1">>, <<"5", "0">>, <<"B">>>>,
   <<<<"A">>, <<"1">>, <<"5", "0">>, <<"C">>>>,
   <<<<"A">>, <<"1">>, <<"9">>, <<"C">>>>,
   <<<<"B">>, <<"1">>, <<"5", "0">>, <<"A">>>>}

\* formatar_entrega: package lists and (rua, numero, bairro).
NumerosPacote == {<<"1">>, <<"2", "2">>}

Destinos ==
  {<<r, n, b>> : r \in {<<>>, <<"A">>}, n \in {<<>>, <<"1", "0">>}, b \in {<<"C">>, <<"D">>}}

(***************************************************************************)
(* The pipeline of main on an extracted table: corrigir_sintaxe_ruas,      *)
(* aplicar_correcoes_ruas, agrupar_entregas.  The first two rewrite the    *)
(* table they are given; the pipeline can be run again on that table.      *)
(***************************************************************************)
Ocioso ==
  /\ planilha = <<>> /\ erros = <<>>
  /\ endereco = <<>> /\ resultado = <<>>
  /\ pacotes = <<>> /\ destino = <<>> /\ saida = <<>>

Init ==
  /\ pc = "inicio"
  /\ tabela \in SeqsUpTo(LinhasTabela, MaxTabela)
  /\ dicionario \in SeqsUpTo(Regras, MaxRegras)
  /\ grupos = <<>> /\ entregas = <<>> /\ primeira = <<>>
  /\ execucoes = 0
  /\ Ocioso

CorrigirSintaxeRuas ==
  /\ pc = "inicio"
  /\ tabela' = corrigir_sintaxe_ruas(tabela)
  /\ pc' = "sintaxe"
  /\ UNCHANGED <<planilha, erros, dicionario, grupos, entregas, primeira, execucoes,
                 endereco, resultado, pacotes, destino, saida>>

AplicarCorrecoesRuas ==
  /\ pc = "sintaxe"
  /\ tabela' = aplicar_correcoes_ruas(tabela, dicionario)
  /\ pc' = "corrigido"
  /\ UNCHANGED <<planilha, erros, dicionario, grupos, entregas, primeira, execucoes,
                 endereco, resultado, pacotes, destino, saida>>

AgruparEntregas ==
  /\ pc = "corrigido"
  /\ grupos' = Grupos(tabela)
  /\ entregas' = agrupar_entregas(tabela)
  /\ primeira' = IF execucoes = 0 THEN agrupar_entregas(tabela) ELSE primeira
  /\ execucoes' = execucoes + 1
  /\ pc' = "agrupado"
  /\ UNCHANGED <<planilha, tabela, erros, dicionario,
                 endereco, resultado, pacotes, destino, saida>>

Reexecutar ==
  /\ pc = "agrupado"
  /\ execucoes < MaxExecucoes
  /\ pc' = "inicio"
  /\ UNCHANGED <<planilha, tabela, erros, dicionario, grupos, entregas, primeira,
                 execucoes, endereco, resultado, pacotes, destino, saida>>

Next == CorrigirSintaxeRuas \/ AplicarCorrecoesRuas \/ AgruparEntregas \/ Reexecutar

Spec == Init /\ [][Next]_vars

(***************************************************************************)
(* gerar_df on a worksheet.                                                *)
(***************************************************************************)
InitExtrai ==
  /\ pc = "arquivo"
  /\ \/ planilha = <<>>
     \/ \E w \in Larguras : \E d \in SeqsUpTo(LinhasPlanilha(w), MaxLinhas) :
          planilha = <<Cabecalho(w)>> \o d
  /\ tabela = <<>> /\ erros = <<>> /\ dicionario = <<>>
  /\ grupos = <<>> /\ entregas = <<>> /\ primeira = <<>>
  /\ execucoes = 0
  /\ endereco = <<>> /\ resultado = <<>>
  /\ pacotes = <<>> /\ destino = <<>> /\ saida = <<>>

\* ws.max_row < 2: ValueError, re-raised as RuntimeError; nothing is returned.
GerarDfFalha ==
  /\ pc = "arquivo"
  /\ MaxRow(planilha) < 2
  /\ pc' = "erro"
  /\ UNCHANGED <<planilha, tabela, erros, dicionario, grupos, entregas, primeira,
                 execucoes, endereco, resultado, pacotes, destino, saida>>

GerarDf ==
  /\ pc = "arquivo"
  /\ MaxRow(planilha) >= 2
  /\ tabela' = gerar_df(planilha).tabela
  /\ erros' = gerar_df(planilha).erros
  /\ pc' = "extraido"
  /\ UNCHANGED <<planilha, dicionario, grupos, entregas, primeira,
                 execucoes, endereco, resultado, pacotes, destino, saida>>

NextExtrai == GerarDf \/ GerarDfFalha

SpecExtrai == InitExtrai /\ [][NextExtrai]_vars

(***************************************************************************)
(* extrair_numero_endereco on an address string.                           *)
(***************************************************************************)
InitEndereco ==
  /\ pc = "chamada"
  /\ endereco \in SeqsUpTo(Alfabeto, MaxEndereco)
  /\ resultado = <<>>
  /\ planilha = <<>> /\ tabela = <<>> /\ erros = <<>> /\ dicionario = <<>>
  /\ grupos = <<>> /\ entregas = <<>> /\ primeira = <<>>
  /\ execucoes = 0
  /\ pacotes = <<>> /\ destino = <<>> /\ saida = <<>>

ExtrairNumeroEndereco ==
  /\ pc = "chamada"
  /\ resultado' = extrair_numero_endereco(endereco)
  /\ pc' = "retorno"
  /\ UNCHANGED <<planilha, tabela, erros, dicionario, grupos, entregas, primeira,
                 execucoes, endereco, pacotes, destino, saida>>

NextEndereco == ExtrairNumeroEndereco

SpecEndereco == InitEndereco /\ [][NextEndereco]_vars

(***************************************************************************)
(* formatar_entrega on a package list and an address.                      *)
(***************************************************************************)
InitFormato ==
  /\ pc = "chamada"
  /\ pacotes \in SeqsUpTo(NumerosPacote, MaxPacotes)
  /\ destino \in Destinos
  /\ saida = <<>>
  /\ planilha = <<>> /\ tabela = <<>> /\ erros = <<>> /\ dicionario = <<>>
  /\ grupos = <<>> /\ entregas = <<>> /\ primeira = <<>>
  /\ execucoes = 0
  /\ endereco = <<>> /\ resultado = <<>>

FormatarEntrega ==
  /\ pc = "chamada"
  /\ saida' = formatar_entrega(pacotes, destino[1], destino[2], destino[3])
  /\ pc' = "retorno"
  /\ UNCHANGED <<planilha, tabela, erros, dicionario, grupos, entregas, primeira,
                 execucoes, endereco, resultado, pacotes, destino>>

NextFormato == FormatarEntrega

SpecFormato == InitFormato /\ [][NextFormato]_vars

(***************************************************************************)
(* Operators the properties are stated with.                               *)
(***************************************************************************)
\* a <= b in lexicographic order: a is a prefix of b, or they first differ
\* at a position where a has the smaller character.
LexLeq(a, b) ==
  \/ Len(a) <= Len(b) /\ a = SubSeq(b, 1, Len(a))
  \/ \E k \in 1..Len(a) :
       /\ k <= Len(b)
       /\ SubSeq(a, 1, k - 1) = SubSeq(b, 1, k - 1)
       /\ Ord(a[k]) < Ord(b[k])

LexLess(a, b) == a # b /\ LexLeq(a, b)

\* r is s without its leading and trailing spaces.
IsTrimOf(r, s) ==
  \E a \in 0..Len(s) :
    /\ a + Len(r) <= Len(s)
    /\ r = SubSeq(s, a + 1, a + Len(r))
    /\ \A i \in 1..a : s[i] = " "
    /\ \A i \in (a + Len(r) + 1)..Len(s) : s[i] = " "
    /\ r # <<>> => r[1] # " " /\ r[Len(r)] # " "

AllDigits(s) == \A i \in 1..Len(s) : s[i] \in {"0", "1", "2", "3", "4", "5", "6", "7", "8", "9"}

\* num is the house number found at the start of resto.
IsNumeroDe(num, resto) ==
  IF Len(resto) >= 2 /\ resto[1] \in {"s", "S"} /\ resto[2] \in {"n", "N"}
  THEN num = <<"S", "N">>
  ELSE IF resto # <<>> /\ AllDigits(<<resto[1]>>)
  THEN \E m \in 1..Len(resto) :
         /\ num = SubSeq(resto, 1, m)
         /\ AllDigits(num)
         /\ m = Len(resto) \/ ~AllDigits(<<resto[m + 1]>>)
  ELSE num = <<>>

\* Position of the first comma of e, 0 if it has none.
PrimeiraVirgula(e) ==
  IF \E k \in 1..Len(e) : e[k] = ","
  THEN CHOOSE k \in 1..Len(e) : e[k] = "," /\ \A i \in 1..(k - 1) : e[i] # ","
  ELSE 0

\* C8: extrair_numero_endereco returns for every address: without a comma,
\* the address itself and an empty house number; otherwise the trimmed text
\* before the first comma, and the upper-cased "sn" or the maximal run of
\* leading digits at the start of the trimmed text after it (empty if
\* neither).  The house number is "", "SN" or a non-empty string of digits.
C8_Parse ==
  pc = "retorno" =>
    LET k == PrimeiraVirgula(endereco)
        rua == resultado[1]
        num == resultado[2]
    IN /\ Len(resultado) = 2
       /\ k = 0 => rua = endereco /\ num = <<>>
       /\ k > 0 =>
            /\ IsTrimOf(rua, SubSeq(endereco, 1, k - 1))
            /\ \E a \in k..Len(endereco) : \E b \in a..Len(endereco) :
                 /\ IsTrimOf(SubSeq(endereco, a + 1, b), SubSeq(endereco, k + 1, Len(endereco)))
                 /\ IsNumeroDe(num, SubSeq(endereco, a + 1, b))
       /\ num = <<>> \/ num = <<"S", "N">> \/ (num # <<>> /\ AllDigits(num))

C8_Witness ==
  /\ pc = "retorno"
  /\ endereco = <<"A", ",", " ", "s", "N">>
  /\ resultado = <<<<"A">>, <<"S", "N">>>>

\* The package list as the route sheet shows it: one package alone, two
\* joined by " e ", more with ", " before all but the last two.
RECURSIVE ListaPacotes(_)
ListaPacotes(p) ==
  IF Len(p) = 1 THEN p[1]
  ELSE IF Len(p) = 2 THEN p[1] \o <<" ", "e", " ">> \o p[2]
  ELSE p[1] \o <<",", " ">> \o ListaPacotes(Tail(p))

\* C9: formatar_entrega renders one package as itself and n >= 2 packages as
\* the first n-1 joined by ", ", then " e ", then the last; rua, numero and
\* bairro of the output row are those of the group.
C9_Formato ==
  pc = "retorno" /\ pacotes # <<>> =>
    /\ Len(saida) = 4
    /\ saida[1] = ListaPacotes(pacotes)
    /\ <<saida[2], saida[3], saida[4]>> = destino

C9_Witness ==
  /\ pc = "retorno"
  /\ pacotes = <<<<"1">>, <<"2", "2">>, <<"1">>>>
  /\ saida[1] = <<"1", ",", " ", "2", "2", " ", "e", " ", "1">>

(***************************************************************************)
(* Properties of gerar_df, stated on the worksheet and its result.         *)
(***************************************************************************)
\* Row numbers of the data rows that are not hidden.
NaoOcultas == {n \in 2..Len(planilha) : ~planilha[n].hidden}

\* Row numbers a problem was recorded for.
ComProblema == {erros[k].linha : k \in 1..Len(erros)}

\* The non-hidden data rows without a problem, in ascending row order.
Aceitas ==
  SelectSeq([n \in 1..Len(planilha) |-> n],
            LAMBDA n : n \in NaoOcultas /\ n \notin ComProblema)

\* The text of the cell at 1-based position p of row n ("" for None).
Texto(n, p) ==
  LET c == planilha[n].celulas[p]
  IN IF c.tipo = "None" THEN <<>> ELSE IF c.tipo = "str" THEN c.txt
     ELSE StrNat(c.int) \o <<".">> \o StrNat(c.dec)

\* The cell at 1-based position p of row n is absent, None or an empty text.
Vazia(n, p) ==
  \/ p > Len(planilha[n].celulas)
  \/ planilha[n].celulas[p].tipo = "None"
  \/ planilha[n].celulas[p].tipo = "str" /\ planilha[n].celulas[p].txt = <<>>

\* s without one trailing ".0", if it ends with it.
SemSufixoPontoZero(s) ==
  IF Len(s) >= 2 /\ SubSeq(s, Len(s) - 1, Len(s)) = <<".", "0">>
  THEN SubSeq(s, 1, Len(s) - 2) ELSE s

\* C5: the package number of a record is the text of the package cell with
\* a trailing ".0" removed if present, and otherwise that text unchanged.
C5_SoSufixo ==
  pc = "extraido" /\ Len(Aceitas) = Len(tabela) =>
    \A k \in 1..Len(tabela) :
      ~Vazia(Aceitas[k], 4) => tabela[k][1] = SemSufixoPontoZero(Texto(Aceitas[k], 4))

\* C6: a non-hidden row whose cell 4 or cell 11 is absent, None or an empty
\* text gets a problem and no record.
C6_ObrigatoriasVazias ==
  pc = "extraido" =>
    \A n \in NaoOcultas : Vazia(n, 4) \/ Vazia(n, 11) => n \in ComProblema

\* C7: with at least 2 rows every data row is visited: a hidden row gives
\* neither a record nor a problem, a non-hidden row gives exactly one of
\* them, so |records| + |problems| is the number of non-hidden data rows,
\* and the records are in the order of their rows.
C7_LoteCompleto ==
  /\ pc = "arquivo" /\ Len(planilha) >= 2 => ENABLED GerarDf
  /\ pc = "extraido" =>
       /\ Len(tabela) + Len(erros) = Cardinality(NaoOcultas)
       /\ ComProblema \subseteq NaoOcultas
       /\ \A j, k \in 1..Len(erros) : j < k => erros[j].linha < erros[k].linha
       /\ Len(Aceitas) = Len(tabela)
       /\ \A k \in 1..Len(tabela) :
            /\ tabela[k][2] = Texto(Aceitas[k], 9)
            /\ tabela[k][4] = Texto(Aceitas[k], 11)

C7_Witness ==
  /\ pc = "extraido"
  /\ Len(planilha) = 3
  /\ planilha[2].hidden /\ Vazia(2, 4)
  /\ ~planilha[3].hidden
  /\ Len(tabela) = 1 /\ erros = <<>>

(***************************************************************************)
(* Properties of the pipeline.                                             *)
(***************************************************************************)
\* The normalized address of a table row.
Triplo(linha) == <<linha[2], linha[3], linha[4]>>

\* The package numbers of the rows of t with address e, in table order.
PacotesDe(t, e) ==
  LET sel == SelectSeq(t, LAMBDA linha : Triplo(linha) = e)
  IN [k \in 1..Len(sel) |-> sel[k][1]]

\* Number of occurrences of x in the sequence s.
Conta(s, x) == Cardinality({k \in 1..Len(s) : s[k] = x})

\* Strictly ascending lexicographic order of address triples.
TriploLess(a, b) ==
  \/ LexLess(a[1], b[1])
  \/ a[1] = b[1] /\ LexLess(a[2], b[2])
  \/ a[1] = b[1] /\ a[2] = b[2] /\ LexLess(a[3], b[3])

\* C1: running the pipeline a second time on the same extracted records and
\* the same correction table gives the grouped output of the first run.
C1_Idempotente ==
  pc = "agrupado" /\ execucoes >= 2 => entregas = primeira

\* The rules of dic that match a row: same street, and the house number
\* between the bounds in lexicographic order.
RegraCasa(regra, linha) ==
  regra[1] = linha[2] /\ LexLeq(regra[2], linha[3]) /\ LexLeq(linha[3], regra[3])

RegrasQueCasam(dic, linha) == {k \in 1..Len(dic) : RegraCasa(dic[k], linha)}

Min(S) == CHOOSE x \in S : \A y \in S : x <= y

\* C2: a record that rules match gets the correct_street of the first
\* matching rule in the order of the correction table.
C2_PrimeiraRegra ==
  [][pc = "sintaxe" /\ pc' = "corrigido" =>
       \A i \in 1..Len(tabela) :
         RegrasQueCasam(dicionario, tabela[i]) # {} =>
           tabela'[i][2] = dicionario[Min(RegrasQueCasam(dicionario, tabela[i]))][4]]_vars

\* C3: in every grouped delivery the package numbers are in the relative
\* order their records have in the input table.
C3_Estavel ==
  pc = "agrupado" =>
    /\ Len(entregas) = Len(grupos)
    /\ \A g \in 1..Len(grupos) :
         /\ Triplo(entregas[g]) = grupos[g].endereco
         /\ grupos[g].pacotes = PacotesDe(tabela, grupos[g].endereco)
         /\ entregas[g][1] = ListaPacotes(PacotesDe(tabela, grupos[g].endereco))

C3_Witness ==
  /\ pc = "agrupado"
  /\ Len(tabela) >= 2
  /\ Triplo(tabela[1]) = Triplo(tabela[2])
  /\ tabela[1][1] = <<"2">> /\ tabela[2][1] = <<"1">>
  /\ Len(entregas) = 1
  /\ entregas[1][1] = <<"2", " ", "e", " ", "1">>

\* C4: one grouped delivery per distinct address triple of the input, each
\* record's package in the delivery of its triple and in no other, the
\* deliveries in strictly ascending order of the triple, records with empty
\* street and house number grouped and not dropped, no delivery for an
\* empty input.
C4_Particao ==
  pc = "agrupado" =>
    /\ Len(entregas) = Len(grupos)
    /\ Len(grupos) = Cardinality({Triplo(tabela[i]) : i \in 1..Len(tabela)})
    /\ \A g \in 1..Len(grupos) : Triplo(entregas[g]) = grupos[g].endereco
    /\ \A g, h \in 1..Len(grupos) :
         g < h => TriploLess(grupos[g].endereco, grupos[h].endereco)
    /\ \A i \in 1..Len(tabela) :
         \E g \in 1..Len(grupos) :
           /\ grupos[g].endereco = Triplo(tabela[i])
           /\ Conta(grupos[g].pacotes, tabela[i][1])
                = Conta(PacotesDe(tabela, Triplo(tabela[i])), tabela[i][1])
           /\ \A h \in 1..Len(grupos) : grupos[h].endereco = Triplo(tabela[i]) => h = g
    /\ \A g \in 1..Len(grupos) :
         Len(grupos[g].pacotes) = Len(PacotesDe(tabela, grupos[g].endereco))
    /\ tabela = <<>> => entregas = <<>>

C4_Witness ==
  /\ pc = "agrupado"
  /\ Len(tabela) = 2
  /\ tabela[1][2] = <<"A">>
  /\ tabela[2][2] = <<>> /\ tabela[2][3] = <<>>
  /\ Len(entregas) = 2
  /\ entregas[1][2] = <<>> /\ entregas[1][3] = <<>>
  /\ entregas[2][2] = <<"A">>

\* C10: aplicar_correcoes_ruas rewrites a record's street exactly when some
\* rule has its street and bounds that enclose its house number in
\* lexicographic order, and then to the correct_street of a rule matching
\* the record as it was before the pass; package number, house number and
\* neighborhood are never changed, nor is the number of records.
C10_Correcao ==
  [][pc = "sintaxe" /\ pc' = "corrigido" =>
       /\ Len(tabela') = Len(tabela)
       /\ \A i \in 1..Len(tabela) :
            LET casam == RegrasQueCasam(dicionario, tabela[i])
            IN /\ casam = {} => tabela'[i] = tabela[i]
               /\ casam # {} => \E k \in casam : tabela'[i][2] = dicionario[k][4]
               /\ tabela'[i][1] = tabela[i][1]
               /\ tabela'[i][3] = tabela[i][3]
               /\ tabela'[i][4] = tabela[i][4]]_vars

C10_Witness ==
  /\ pc = "corrigido"
  /\ execucoes = 0
  /\ dicionario = <<<<<<"A">>, <<"1">>, <<"5", "0">>, <<"B">>>>,
                    <<<<"B">>, <<"1">>, <<"5", "0">>, <<"A">>>>>>
  /\ Len(tabela) = 2
  /\ tabela[1] = <<<<"1">>, <<"A">>, <<"9">>, <<"C">>>>
  /\ tabela[2] = <<<<"2">>, <<"B">>, <<"1", "0">>, <<"C">>>>

====
